---- MODULE Spec2Model ----
(***************************************************************************)
(* Model of merge_bills.py: text normalisation, amount cleaning, the two   *)
(* source adapters, the category rule loader, the classifier and main().   *)
(*                                                                         *)
(* Text is a sequence of characters; a character is a one-token string.    *)
(*   "FA" U+FF21 fullwidth A      "Fa" U+FF41 fullwidth a                  *)
(*   "NB" U+00A0 no-break space   "ZW" U+200B zero width space             *)
(*   "CM" U+0301 combining acute  "aac" U+00E1   "Aac" U+00C1              *)
(*   "T"  U+0009 tab                                                       *)
(***************************************************************************)
EXTENDS Integers, Sequences, FiniteSets, TLC

VARIABLES
  pc,          \* where the modelled run stands
  text,        \* normalisation: the input text
  norm1,       \* normalisation: _normalize_text(text)
  norm2,       \* normalisation: _normalize_text(norm1)
  table,       \* adapters: the raw table handed to the adapters
  ran,         \* adapters: the adapters that have been run on it
  alipayOut,   \* adapters: what parse_alipay returned
  wechatOut,   \* adapters: what parse_wechat returned
  ruleFile,    \* category_map.csv
  rules,       \* what _load_category_rules returned
  merged,      \* main's DataFrame merged, after the sort of line 340
  cats,        \* the (category, subcategory) main assigns to each row of merged
  files,       \* main: the input files, in the order glob lists them
  idx,         \* main: the place in files of the file the loop handles next
  dfs,         \* main: the DataFrames appended so far
  report,      \* main: what the loop printed for each file handled
  ledger,      \* main: the rows written to merged.csv
  outcome,     \* main: how the run ended
  outputDir,   \* oneclick: ROOT/output, whether it exists and the ledgers in it
  cwd,         \* oneclick: the working directory the run was started in
  csv_path,    \* oneclick: what find_merged_csv returned
  exit_code    \* oneclick: the code of sys.exit, 0 while none was called

normVars    == <<text, norm1, norm2>>
adapterVars == <<table, ran, alipayOut, wechatOut>>
ruleVars    == <<ruleFile, rules, merged, cats>>
mainVars    == <<files, idx, dfs, report, ledger, outcome>>
orchVars    == <<outputDir, cwd, csv_path, exit_code>>
vars == <<pc, normVars, adapterVars, ruleVars, mainVars, orchVars>>

\* ------------------------------------------------------------------ bounds
MaxTextLen == 3
MaxAmountLen == 3
MaxRules == 2
MaxFiles == 2

\* ------------------------------------------------------------- generic
RECURSIVE SeqsUpTo(_, _)
SeqsUpTo(S, n) ==
  IF n = 0 THEN {<<>>}
  ELSE LET shorter == SeqsUpTo(S, n - 1)
       IN  shorter \cup {Append(s, c) : s \in {t \in shorter : Len(t) = n - 1}, c \in S}

\* Python None where a text is expected: a marker no text is equal to.
NoneValue == <<"None">>

\* ------------------------------------------------- _normalize_text (67-82)
\* unicodedata.normalize("NFKC", s), step 1: compatibility decomposition.
DecomposeChar(c) ==
  CASE c = "FA"  -> <<"A">>
    [] c = "Fa"  -> <<"a">>
    [] c = "NB"  -> <<" ">>
    [] c = "aac" -> <<"a", "CM">>
    [] c = "Aac" -> <<"A", "CM">>
    [] OTHER     -> <<c>>

RECURSIVE Decompose(_)
Decompose(s) ==
  IF s = <<>> THEN <<>> ELSE DecomposeChar(Head(s)) \o Decompose(Tail(s))

\* NFKC step 2: canonical composition, a starter directly followed by the mark.
ComposePair(b) == IF b = "a" THEN "aac" ELSE "Aac"

RECURSIVE ComposeFrom(_, _)
ComposeFrom(out, s) ==
  IF s = <<>> THEN out
  ELSE IF Head(s) = "CM" /\ out # <<>> /\ out[Len(out)] \in {"a", "A"}
       THEN ComposeFrom(SubSeq(out, 1, Len(out) - 1) \o <<ComposePair(out[Len(out)])>>, Tail(s))
       ELSE ComposeFrom(Append(out, Head(s)), Tail(s))

NFKC(s) == ComposeFrom(<<>>, Decompose(s))

\* s.replace(U+00A0, " ").replace(U+200B, "")
RECURSIVE ReplaceInvisible(_)
ReplaceInvisible(s) ==
  IF s = <<>> THEN <<>>
  ELSE IF Head(s) = "ZW" THEN ReplaceInvisible(Tail(s))
  ELSE IF Head(s) = "NB" THEN <<" ">> \o ReplaceInvisible(Tail(s))
  ELSE <<Head(s)>> \o ReplaceInvisible(Tail(s))

\* the characters re's \s and str.strip() take for whitespace
IsSpace(c) == c \in {" ", "T", "NB"}

\* re.sub(r"\s+", " ", s)
RECURSIVE CollapseSpaces(_)
CollapseSpaces(s) ==
  IF s = <<>> THEN <<>>
  ELSE IF IsSpace(Head(s))
       THEN IF Len(s) > 1 /\ IsSpace(s[2])
            THEN CollapseSpaces(Tail(s))
            ELSE <<" ">> \o CollapseSpaces(Tail(s))
       ELSE <<Head(s)>> \o CollapseSpaces(Tail(s))

\* str.strip()
RECURSIVE LStrip(_)
LStrip(s) == IF s # <<>> /\ IsSpace(Head(s)) THEN LStrip(Tail(s)) ELSE s

RECURSIVE RStrip(_)
RStrip(s) ==
  IF s # <<>> /\ IsSpace(s[Len(s)]) THEN RStrip(SubSeq(s, 1, Len(s) - 1)) ELSE s

Strip(s) == RStrip(LStrip(s))

\* str.lower()
LowerChar(c) ==
  CASE c = "A"   -> "a"
    [] c = "K"   -> "k"
    [] c = "F"   -> "f"
    [] c = "C"   -> "c"
    [] c = "I"   -> "i"
    [] c = "FA"  -> "Fa"
    [] c = "Aac" -> "aac"
    [] OTHER     -> c

Lower(s) == [i \in 1..Len(s) |-> LowerChar(s[i])]

normalize_text(s) ==
  IF s = NoneValue THEN <<>>
  ELSE Lower(Strip(CollapseSpaces(ReplaceInvisible(NFKC(s)))))

\* ------------------------------------------------------ cells and numbers
\* A cell pandas read as missing (NaN): pd.isna(cell) holds of it alone.
NaCell == <<"NaN">>

\* str(cell): a missing cell prints as the text nan.
StrOf(cell) == IF cell = NaCell THEN <<"n", "a", "n">> ELSE cell

\* A Python float: kind "num" is (-1)^neg * mant / 10^scale; "nan" and "inf"
\* are the IEEE specials; "none" is Python None (no float at all).
Float(kind, neg, mant, scale) == [kind |-> kind, neg |-> neg, mant |-> mant, scale |-> scale]

NoneFloat == Float("none", FALSE, 0, 0)

DigitChars == {"0", "1", "2", "3", "4", "5"}

DigitVal(c) ==
  CASE c = "0" -> 0 [] c = "1" -> 1 [] c = "2" -> 2
    [] c = "3" -> 3 [] c = "4" -> 4 [] c = "5" -> 5

RECURSIVE RemoveChars(_, _)
RemoveChars(s, drop) ==
  IF s = <<>> THEN <<>>
  ELSE IF Head(s) \in drop THEN RemoveChars(Tail(s), drop)
  ELSE <<Head(s)>> \o RemoveChars(Tail(s), drop)

\* The digits of s read as a decimal number.
RECURSIVE DigitsValue(_)
DigitsValue(s) ==
  IF s = <<>> THEN 0 ELSE 10 * DigitsValue(SubSeq(s, 1, Len(s) - 1)) + DigitVal(s[Len(s)])

CountChar(s, c) == Cardinality({i \in 1..Len(s) : s[i] = c})

\* float(s): surrounding blanks are ignored, then an optional sign and either
\* "nan" (the token "N"), "inf" (the token "I"), or digits with at most one
\* point and at least one digit. Anything else raises ValueError (NoneFloat).
ParseFloat(s) ==
  LET t    == Strip(s)
      sgn  == t # <<>> /\ Head(t) \in {"-", "+"}
      neg  == t # <<>> /\ Head(t) = "-"
      body == IF sgn THEN Tail(t) ELSE t
      digs == RemoveChars(body, {"."})
      dot  == IF \E i \in 1..Len(body) : body[i] = "."
              THEN CHOOSE i \in 1..Len(body) : body[i] = "." ELSE Len(body)
  IN  IF body = <<"N">> THEN Float("nan", neg, 0, 0)
      ELSE IF body = <<"I">> THEN Float("inf", neg, 0, 0)
      ELSE IF /\ digs # <<>>
              /\ \A i \in 1..Len(digs) : digs[i] \in DigitChars
              /\ CountChar(body, ".") <= 1
           THEN Float("num", neg, DigitsValue(digs), Len(body) - dot)
           ELSE NoneFloat

\* abs(x): clears the sign, also of nan and inf.
Abs(x) == [x EXCEPT !.neg = FALSE]

\* x >= 0 as Python compares floats: every comparison with nan is False.
GeZero(x) ==
  \/ x.kind = "num" /\ (~x.neg \/ x.mant = 0)
  \/ x.kind = "inf" /\ ~x.neg

\* pd.isna(x) of a float or None.
IsNullFloat(x) == x.kind \in {"none", "nan"}

\* --------------------------------------------------- _clean_amount (34-43)
\* "Y" is the yen sign U+00A5 and "FY" the fullwidth yen sign U+FFE5.
RECURSIVE ParenToMinus(_)
ParenToMinus(s) ==
  IF s = <<>> THEN <<>>
  ELSE <<IF Head(s) = "(" THEN "-" ELSE Head(s)>> \o ParenToMinus(Tail(s))

clean_amount(x) ==
  IF x = NaCell THEN NoneFloat
  ELSE LET s1 == RemoveChars(Strip(x), {","})
           s2 == RemoveChars(s1, {"Y", "FY"})
           s3 == RemoveChars(ParenToMinus(RemoveChars(s2, {"="})), {")"})
       IN  ParseFloat(s3)

\* -------------------------------------------------------- _to_date (46-64)
\* A time cell is modelled by the instant it denotes: the tokens "d1", "d2",
\* "d3" are timestamps in one of the listed formats, "d1s" is instant 1
\* written with slashes; any other text parses to NaT.
NaT == 0

to_date(cell) ==
  IF cell = NaCell THEN NaT
  ELSE LET t == Strip(cell)
       IN  CASE t \in {<<"d1">>, <<"d1s">>} -> 1
             [] t = <<"d2">> -> 2
             [] t = <<"d3">> -> 3
             [] OTHER -> NaT

\* ------------------------------------------------------------ raw tables
\* A raw table (DataFrame) is [cols: set of header names, rows: sequence of
\* rows], a row being a function from the table's headers to cells. Headers
\* are written in pinyin:
\*   jiaoyishijian = 交易时间   shijian = 时间   chuangjianshijian = 创建时间
\*   zhifushijian = 支付时间    shou/zhi = 收/支  shouzhi = 收支
\*   shouzhileixing = 收支类型  jine(yuan)fw = 金额（元）  jine(yuan) = 金额(元)
\*   jine = 金额   jiaoyijine = 交易金额   jiaoyijine(yuan) = 交易金额(元)
\*   jiaoyiduifang = 交易对方  duifang = 对方  shangjia = 商家
\*   shanghumingcheng = 商户名称  shou/fukuanfang = 收/付款方
\*   shangpinshuoming = 商品说明  shangpin = 商品  shangpinmingcheng = 商品名称
\*   biaoti = 标题  shiyou = 事由  jiaoyizhuangtai = 交易状态  zhuangtai = 状态
\*   dangqianzhuangtai = 当前状态  zhifufangshi = 支付方式
\*   shou/fukuanfangshi = 收/付款方式  zijinqudao = 资金渠道  beizhu = 备注
\*   yonghubeizhu = 用户备注  fuyan = 附言  jiaoyileixing = 交易类型
\*   leixing = 类型
\* and the words of the direction columns character by character:
\*   zhi chu = 支出   shou ru = 收入   zhuan chu = 转出   zhuan ru = 转入
\*   tui kuan = 退款
NoCol == "<None>"

\* next((cols.get(k) for k in aliases if k in cols), None)
RECURSIVE FirstAlias(_, _)
FirstAlias(aliases, cols) ==
  IF aliases = <<>> THEN NoCol
  ELSE IF Head(aliases) \in cols THEN Head(aliases)
  ELSE FirstAlias(Tail(aliases), cols)

\* r.get(c, default)
RowGet(r, c, default) == IF c = NoCol THEN default ELSE r[c]

Expense == <<"zhi", "chu">>
Income  == <<"shou", "ru">>

\* v in s, for texts
Contains(s, v) ==
  \E i \in 0..(Len(s) - Len(v)) : SubSeq(s, i + 1, i + Len(v)) = v

\* An adapter's answer: None (not recognised) or the DataFrame of its rows.
NotRecognized == [recognized |-> FALSE, rows |-> <<>>]
Recognized(rows) == [recognized |-> TRUE, rows |-> rows]

\* --------------------------------------------------- parse_alipay (232-264)
AlipayTime     == <<"jiaoyishijian", "shijian", "chuangjianshijian", "zhifushijian">>
AlipayIo       == <<"shou/zhi", "shouzhi", "shouzhileixing">>
AlipayAmount   == <<"jine(yuan)fw", "jine(yuan)", "jine", "jiaoyijine">>
AlipayMerchant == <<"jiaoyiduifang", "duifang", "shangjia", "shanghumingcheng">>
AlipayItem     == <<"shangpinshuoming", "shangpin", "shangpinmingcheng", "biaoti", "shiyou">>
AlipayStatus   == <<"jiaoyizhuangtai", "zhuangtai">>
AlipayMethod   == <<"zhifufangshi", "shou/fukuanfangshi", "zijinqudao">>
AlipayNote     == <<"beizhu", "yonghubeizhu", "fuyan">>

AlipayType(io) ==
  IF io \in {<<"zhi", "chu">>, <<"zhuan", "chu">>} THEN Expense
  ELSE IF io \in {<<"shou", "ru">>, <<"zhuan", "ru">>} THEN Income
  ELSE Expense

AlipayRecognizes(cols) ==
  FirstAlias(AlipayTime, cols) # NoCol /\ FirstAlias(AlipayAmount, cols) # NoCol

\* The rows the loop of lines 246-263 appends for the raw rows `rows`.
RECURSIVE AlipayRows(_, _)
AlipayRows(cols, rows) ==
  IF rows = <<>> THEN <<>>
  ELSE LET r   == Head(rows)
           amt == clean_amount(r[FirstAlias(AlipayAmount, cols)])
           io  == Strip(StrOf(RowGet(r, FirstAlias(AlipayIo, cols), <<>>)))
           out == [date     |-> to_date(r[FirstAlias(AlipayTime, cols)]),
                   type     |-> AlipayType(io),
                   amount   |-> Abs(amt),
                   merchant |-> RowGet(r, FirstAlias(AlipayMerchant, cols), <<>>),
                   item     |-> RowGet(r, FirstAlias(AlipayItem, cols), <<>>),
                   method   |-> RowGet(r, FirstAlias(AlipayMethod, cols), <<>>),
                   status   |-> RowGet(r, FirstAlias(AlipayStatus, cols), <<>>),
                   platform |-> "Alipay",
                   note     |-> RowGet(r, FirstAlias(AlipayNote, cols), <<>>)]
       IN  IF amt = NoneFloat THEN AlipayRows(cols, Tail(rows))
           ELSE <<out>> \o AlipayRows(cols, Tail(rows))

parse_alipay(df) ==
  IF ~AlipayRecognizes(df.cols) THEN NotRecognized
  ELSE Recognized(AlipayRows(df.cols, df.rows))

\* --------------------------------------------------- parse_wechat (267-304)
WechatTime     == <<"jiaoyishijian", "shijian", "zhifushijian">>
WechatTypeCol  == <<"jiaoyileixing", "leixing">>
WechatAmount   == <<"jine(yuan)", "jine(yuan)fw", "jine", "jiaoyijine(yuan)">>
WechatIo       == <<"shou/zhi", "shouzhi">>
WechatMerchant == <<"jiaoyiduifang", "shanghumingcheng", "shou/fukuanfang">>
WechatItem     == <<"shangpin", "shangpinshuoming", "shangpinmingcheng">>
WechatStatus   == <<"dangqianzhuangtai", "jiaoyizhuangtai", "zhuangtai">>
WechatMethod   == <<"zhifufangshi", "shou/fukuanfangshi", "zijinqudao">>
WechatNote     == <<"beizhu", "yonghubeizhu", "fuyan">>

WechatType(io, typ_guess) ==
  IF io = <<"zhi", "chu">> THEN Expense
  ELSE IF io = <<"shou", "ru">> THEN Income
  ELSE IF \E k \in {<<"tui", "kuan">>, <<"zhuan", "ru">>, <<"shou", "ru">>} :
            Contains(typ_guess, k)
       THEN Income
       ELSE Expense

WechatRecognizes(cols) ==
  FirstAlias(WechatTime, cols) # NoCol /\ FirstAlias(WechatAmount, cols) # NoCol

RECURSIVE WechatRows(_, _)
WechatRows(cols, rows) ==
  IF rows = <<>> THEN <<>>
  ELSE LET r   == Head(rows)
           amt == clean_amount(r[FirstAlias(WechatAmount, cols)])
           io  == Strip(StrOf(RowGet(r, FirstAlias(WechatIo, cols), <<>>)))
           typ_guess == Strip(StrOf(RowGet(r, FirstAlias(WechatTypeCol, cols), <<>>)))
           out == [date     |-> to_date(r[FirstAlias(WechatTime, cols)]),
                   type     |-> WechatType(io, typ_guess),
                   amount   |-> Abs(amt),
                   merchant |-> RowGet(r, FirstAlias(WechatMerchant, cols), <<>>),
                   item     |-> RowGet(r, FirstAlias(WechatItem, cols), <<>>),
                   method   |-> RowGet(r, FirstAlias(WechatMethod, cols), <<>>),
                   status   |-> RowGet(r, FirstAlias(WechatStatus, cols), <<>>),
                   platform |-> "WeChat",
                   note     |-> RowGet(r, FirstAlias(WechatNote, cols), <<>>)]
       IN  IF amt = NoneFloat THEN WechatRows(cols, Tail(rows))
           ELSE <<out>> \o WechatRows(cols, Tail(rows))

parse_wechat(df) ==
  IF ~WechatRecognizes(df.cols) THEN NotRecognized
  ELSE Recognized(WechatRows(df.cols, df.rows))

\* ------------------------------------------ _load_category_rules (124-171)
\* The rule file is [exists, readable, rows]; a row is a record of the six
\* cells priority, merchant, keyword, category, subcategory, regex (a column
\* the file lacks is filled with "" by lines 146-148).
\* to_int (150-154): int(float(x)), 0 when either raises.
Pow10(n) == CASE n = 0 -> 1 [] n = 1 -> 10 [] n = 2 -> 100 [] OTHER -> 1000

to_int(x) ==
  LET f == IF x = NaCell THEN Float("nan", FALSE, 0, 0) ELSE ParseFloat(x)
  IN  IF f.kind # "num" THEN 0
      ELSE LET q == f.mant \div Pow10(f.scale) IN IF f.neg THEN 0 - q ELSE q

\* "" if pd.isna(cell) else str(cell).strip()
CellText(cell) == IF cell = NaCell THEN <<>> ELSE Strip(cell)

\* The dict lines 162-169 build for a row; `row` is the row's place in the
\* file, kept beside the rule to state the order of the sorted list.
RuleOf(r, i) ==
  [priority    |-> to_int(r.priority),
   merchant    |-> CellText(r.merchant),
   keyword     |-> CellText(r.keyword),
   category    |-> CellText(r.category),
   subcategory |-> CellText(r.subcategory),
   regex       |-> Strip(StrOf(r.regex)) \in {<<"1">>, <<"t", "r", "u", "e">>, <<"T", "r", "u", "e">>},
   row         |-> i]

\* Lines 156-169: the rules of the rows whose category is not empty.
RECURSIVE RulesFrom(_, _)
RulesFrom(rows, i) ==
  IF i > Len(rows) THEN <<>>
  ELSE IF CellText(rows[i].category) = <<>> THEN RulesFrom(rows, i + 1)
  ELSE <<RuleOf(rows[i], i)>> \o RulesFrom(rows, i + 1)

\* list.sort(key=priority, reverse=True): descending and stable. A rule is
\* inserted behind every rule of greater or equal priority.
RECURSIVE InsertByPriority(_, _)
InsertByPriority(sorted, r) ==
  IF sorted = <<>> THEN <<r>>
  ELSE IF Head(sorted).priority >= r.priority
       THEN <<Head(sorted)>> \o InsertByPriority(Tail(sorted), r)
       ELSE <<r>> \o sorted

\* The same with ties reversed, as sorted(rules, key=priority)[::-1] orders them.
RECURSIVE InsertBeforeTies(_, _)
InsertBeforeTies(sorted, r) ==
  IF sorted = <<>> THEN <<r>>
  ELSE IF Head(sorted).priority > r.priority
       THEN <<Head(sorted)>> \o InsertBeforeTies(Tail(sorted), r)
       ELSE <<r>> \o sorted

RECURSIVE SortRulesFrom(_, _)
SortRulesFrom(sorted, rest) ==
  IF rest = <<>> THEN sorted
  ELSE SortRulesFrom(InsertByPriority(sorted, Head(rest)), Tail(rest))

RECURSIVE SortRulesTiesReversedFrom(_, _)
SortRulesTiesReversedFrom(sorted, rest) ==
  IF rest = <<>> THEN sorted
  ELSE SortRulesTiesReversedFrom(InsertBeforeTies(sorted, Head(rest)), Tail(rest))

SortRulesTiesReversed(rule_list) == SortRulesTiesReversedFrom(<<>>, rule_list)

SortRules(rule_list) == SortRulesFrom(<<>>, rule_list)

load_category_rules(f) ==
  IF ~f.exists THEN <<>>
  ELSE IF ~f.readable THEN <<>>
  ELSE SortRules(RulesFrom(f.rows, 1))

\* ------------------------------------------------------ _classify (174-228)
\* s.split(sep), empty pieces kept
RECURSIVE Split(_, _)
Split(s, sep) ==
  IF \A i \in 1..Len(s) : s[i] # sep THEN <<s>>
  ELSE LET k == CHOOSE i \in 1..Len(s) : s[i] = sep /\ \A j \in 1..(i - 1) : s[j] # sep
       IN  <<SubSeq(s, 1, k - 1)>> \o Split(SubSeq(s, k + 1, Len(s)), sep)

\* " ".join(parts).strip()
RECURSIVE Join(_)
Join(parts) ==
  IF Len(parts) = 1 THEN parts[1] ELSE parts[1] \o <<" ">> \o Join(Tail(parts))

\* The inline flag group (?i), the one group of the patterns modelled that
\* re accepts; it stands at the start of the pattern.
InlineFlag == <<"(", "?", "i", ")">>

HasInlineFlag(patt) == Len(patt) >= Len(InlineFlag) /\ SubSeq(patt, 1, Len(InlineFlag)) = InlineFlag

\* The pattern behind its inline flag group.
PatternBody(patt) ==
  IF HasInlineFlag(patt) THEN SubSeq(patt, Len(InlineFlag) + 1, Len(patt)) ELSE patt

\* re.compile(patt) raises re.error: of the characters modelled, a
\* parenthesis outside the group (?i) makes a pattern malformed, be it a
\* group that is never closed or an extension re does not know, as (?I).
RegexMalformed(patt) ==
  \E i \in 1..Len(PatternBody(patt)) : PatternBody(patt)[i] \in {"(", ")"}

\* One alternative of a pattern matched at position i of the target: "." is
\* any character, every other character is itself.
AltMatchesAt(alt, target, i) ==
  /\ i + Len(alt) - 1 <= Len(target)
  /\ \A j \in 1..Len(alt) : alt[j] = "." \/ alt[j] = target[i + j - 1]

\* re.search(patt, target, re.IGNORECASE) is not None, for a well-formed
\* pattern of literals, "." and "|".
RegexSearch(patt, target) ==
  LET alts == Split(PatternBody(patt), "|")
  IN  \E a \in 1..Len(alts) : \E i \in 1..(Len(target) + 1) : AltMatchesAt(alts[a], target, i)

\* any(v in target for v in patt.split("|") if v)
AliasSearch(patt, target) ==
  LET variants == Split(patt, "|")
  IN  \E a \in 1..Len(variants) : variants[a] # <<>> /\ Contains(target, variants[a])

\* One condition of a rule (lines 200-209, 214-223).
PatternOk(patt, target, regex) ==
  IF regex THEN ~RegexMalformed(patt) /\ RegexSearch(patt, target)
  ELSE AliasSearch(patt, target)

\* The merchant condition searched in fulltext whatever the rule declares.
MerchantOkAlwaysFulltext(r, mtext, fulltext) ==
  r.merchant # <<>> => PatternOk(normalize_text(r.merchant), fulltext, r.regex)

\* Lines 196-209: the merchant condition of rule r.
MerchantOk(r, mtext, fulltext) ==
  r.merchant # <<>> =>
    PatternOk(normalize_text(r.merchant),
              IF r.keyword = <<>> THEN fulltext ELSE mtext, r.regex)

\* Lines 212-223: the keyword condition of rule r.
KeywordOk(r, itext_join) ==
  r.keyword # <<>> => PatternOk(normalize_text(r.keyword), itext_join, r.regex)

Unclassified == <<<<>>, <<>>>>

\* The loop without its early return: the last matching rule wins.
RECURSIVE ClassifyLoopLastMatch(_, _, _, _)
ClassifyLoopLastMatch(rule_list, mtext, itext_join, fulltext) ==
  IF rule_list = <<>> THEN Unclassified
  ELSE LET r == rule_list[Len(rule_list)]
       IN  IF MerchantOk(r, mtext, fulltext) /\ KeywordOk(r, itext_join)
           THEN <<r.category, r.subcategory>>
           ELSE ClassifyLoopLastMatch(SubSeq(rule_list, 1, Len(rule_list) - 1),
                                      mtext, itext_join, fulltext)

\* The loop with the keyword test overwriting ok instead of refining it.
RECURSIVE ClassifyLoopKeywordOverwrites(_, _, _, _)
ClassifyLoopKeywordOverwrites(rule_list, mtext, itext_join, fulltext) ==
  IF rule_list = <<>> THEN Unclassified
  ELSE LET r == Head(rule_list)
       IN  IF IF r.keyword # <<>> THEN KeywordOk(r, itext_join)
              ELSE MerchantOk(r, mtext, fulltext)
           THEN <<r.category, r.subcategory>>
           ELSE ClassifyLoopKeywordOverwrites(Tail(rule_list), mtext, itext_join, fulltext)

\* The loop with a rule matching as soon as one declared condition succeeds.
RECURSIVE ClassifyLoopDisjunction(_, _, _, _)
ClassifyLoopDisjunction(rule_list, mtext, itext_join, fulltext) ==
  IF rule_list = <<>> THEN Unclassified
  ELSE LET r == Head(rule_list)
       IN  IF \/ r.merchant # <<>> /\ MerchantOk(r, mtext, fulltext)
              \/ r.keyword # <<>> /\ KeywordOk(r, itext_join)
           THEN <<r.category, r.subcategory>>
           ELSE ClassifyLoopDisjunction(Tail(rule_list), mtext, itext_join, fulltext)

\* The loop of lines 192-228.
RECURSIVE ClassifyLoop(_, _, _, _)
ClassifyLoop(rule_list, mtext, itext_join, fulltext) ==
  IF rule_list = <<>> THEN Unclassified
  ELSE LET r == Head(rule_list)
       IN  IF MerchantOk(r, mtext, fulltext) /\ KeywordOk(r, itext_join)
           THEN <<r.category, r.subcategory>>
           ELSE ClassifyLoop(Tail(rule_list), mtext, itext_join, fulltext)

TextOf(x) == IF x = NoneValue THEN <<>> ELSE StrOf(x)

classify(note, merchant, item, rule_list) ==
  LET mtext == normalize_text(TextOf(merchant))
      itext == normalize_text(TextOf(item))
      ntext == normalize_text(TextOf(note))
      itext_join == Strip(Join(<<itext, ntext>>))
      fulltext   == Strip(Join(<<mtext, itext, ntext>>))
  IN  ClassifyLoop(rule_list, mtext, itext_join, fulltext)

\* Lines 343-353 of main: the (category, subcategory) of every row of merged.
Categorize(frame, rule_list) ==
  IF rule_list # <<>>
  THEN [i \in 1..Len(frame) |->
          classify(frame[i].note, frame[i].merchant, frame[i].item, rule_list)]
  ELSE [i \in 1..Len(frame) |-> Unclassified]

\* ------------------------------------------------------------ main (308-395)
\* An input file is [raises, df]: reading or parsing it raises (lines 321-325),
\* or _try_read returns the raw table df.
\* df0.dropna(how="all"), line 322
AllNa(r) == \A h \in DOMAIN r : r[h] = NaCell

RECURSIVE DropAllNa(_)
DropAllNa(rows) ==
  IF rows = <<>> THEN <<>>
  ELSE IF AllNa(Head(rows)) THEN DropAllNa(Tail(rows))
  ELSE <<Head(rows)>> \o DropAllNa(Tail(rows))

\* The body of the loop for one file, lines 320-332: what is printed and the
\* DataFrame appended to dfs, if any.
ProcessOne(f) ==
  IF f.raises THEN [report |-> "error", rows |-> <<>>]
  ELSE LET df0 == [cols |-> f.df.cols, rows |-> DropAllNa(f.df.rows)]
           a   == parse_alipay(df0)
           w   == parse_wechat(df0)
       IN  IF a.recognized THEN [report |-> "parsed", rows |-> a.rows]
           ELSE IF w.recognized THEN [report |-> "parsed", rows |-> w.rows]
           ELSE [report |-> "unrecognized", rows |-> <<>>]

\* The loop of lines 319-332 over the files fs, from file i on.
RECURSIVE LoopFrom(_, _, _)
LoopFrom(fs, i, acc) ==
  IF i > Len(fs) THEN acc
  ELSE LET r == ProcessOne(fs[i])
       IN  LoopFrom(fs, i + 1,
                    IF r.report = "parsed"
                    THEN Append(acc, [file |-> i, rows |-> r.rows]) ELSE acc)

\* pd.concat(dfs, ignore_index=True), line 338: the rows of the frames one
\* after the other, each with its place in the concatenation (pos, the index
\* pandas gives it) and the file it came from.
RECURSIVE ConcatFrom(_, _)
ConcatFrom(frames, n) ==
  IF frames = <<>> THEN <<>>
  ELSE LET f == Head(frames)
       IN  [i \in 1..Len(f.rows) |->
              [pos |-> n + i, file |-> f.file, row |-> f.rows[i]]]
             \o ConcatFrom(Tail(frames), n + Len(f.rows))

Concat(frames) == ConcatFrom(frames, 0)

\* dropna(subset=["date"]): the amount is not looked at.
KeepsRowDateOnly(r) == r.row.date # NaT

\* The rows dropna(subset=["date", "amount"]) keeps, line 340.
KeepsRow(r) == r.row.date # NaT /\ ~IsNullFloat(r.row.amount)

RECURSIVE SelectRows(_)
SelectRows(rows) ==
  IF rows = <<>> THEN <<>>
  ELSE IF KeepsRow(Head(rows)) THEN <<Head(rows)>> \o SelectRows(Tail(rows))
  ELSE SelectRows(Tail(rows))

\* sort_values("date"), line 340. The sort is pandas' default, quicksort,
\* which is not stable: rows of equal date come out in any order.
RECURSIVE Arrangements(_)
Arrangements(S) ==
  IF S = {} THEN {<<>>}
  ELSE UNION {{<<m>> \o t : t \in Arrangements(S \ {m})} :
                m \in {r \in S : \A q \in S : r.row.date <= q.row.date}}

\* No sort at all: the rows stay in the order of the concatenation.
SortOutcomesUnsorted(rows) == {rows}

SortOutcomes(rows) == Arrangements({rows[i] : i \in 1..Len(rows)})

\* A row of merged.csv, lines 349-353 and 387-394.
LedgerRow(r, cat) ==
  [pos |-> r.pos, file |-> r.file,
   date |-> r.row.date, type |-> r.row.type,
   category |-> cat[1], subcategory |-> cat[2],
   amount |-> r.row.amount, platform |-> r.row.platform,
   merchant |-> r.row.merchant, item |-> r.row.item, method |-> r.row.method,
   status |-> r.row.status, note |-> r.row.note]

\* Lines 334-395 for the frames collected and one outcome `sorted` of the
\* sort: how the run ends and what it writes. Frames without a single row
\* concatenate to a DataFrame without columns, and merged["date"] raises
\* KeyError.
Finish(frames, sorted, rule_list) ==
  IF frames = <<>> THEN [outcome |-> "no_recognizable", ledger |-> <<>>]
  ELSE IF Concat(frames) = <<>> THEN [outcome |-> "crashed", ledger |-> <<>>]
  ELSE LET c == Categorize([i \in 1..Len(sorted) |-> sorted[i].row], rule_list)
       IN  [outcome |-> "written",
            ledger  |-> [i \in 1..Len(sorted) |-> LedgerRow(sorted[i], c[i])]]

\* Every way main can end on the files fs with the rule file rf.
MainOutcomes(fs, rf) ==
  IF fs = <<>> THEN {[outcome |-> "no_files", ledger |-> <<>>]}
  ELSE LET frames == LoopFrom(fs, 1, <<>>)
       IN  {Finish(frames, s, load_category_rules(rf)) :
              s \in SortOutcomes(SelectRows(Concat(frames)))}

\* ---------------------------------------------- the parts a run leaves idle
EmptyTable == [cols |-> {}, rows |-> <<>>]

NormIdle == text = <<>> /\ norm1 = NoneValue /\ norm2 = NoneValue

AdapterIdle ==
  /\ table = EmptyTable
  /\ ran = {}
  /\ alipayOut = NotRecognized
  /\ wechatOut = NotRecognized

NoRuleFile == [exists |-> FALSE, readable |-> FALSE, rows |-> <<>>]

RuleIdle ==
  /\ ruleFile = NoRuleFile
  /\ rules = <<>>
  /\ merged = <<>>
  /\ cats = <<>>

MainIdle ==
  /\ files = <<>>
  /\ idx = 1
  /\ dfs = <<>>
  /\ report = <<>>
  /\ ledger = <<>>
  /\ outcome = "running"

OutputNames == {"merged.csv", "merged_bills.csv", "merged_old.csv"}

OrchIdle ==
  /\ outputDir = [exists |-> TRUE, holds |-> [n \in OutputNames |-> "absent"]]
  /\ cwd = "root"
  /\ csv_path = ""
  /\ exit_code = 0

\* ------------------------------------------ specification: normalisation
NormAlphabet == {"a", "A", "FA", " ", "NB", "ZW", "CM", "aac"}

TextInputs == SeqsUpTo(NormAlphabet, MaxTextLen) \cup {NoneValue}

InitNormalize ==
  /\ pc = "n_input"
  /\ text \in TextInputs
  /\ norm1 = NoneValue
  /\ norm2 = NoneValue
  /\ AdapterIdle
  /\ RuleIdle
  /\ MainIdle
  /\ OrchIdle

NormalizeOnce ==
  /\ pc = "n_input"
  /\ norm1' = normalize_text(text)
  /\ pc' = "n_once"
  /\ UNCHANGED <<text, norm2, adapterVars, orchVars, ruleVars, mainVars>>

NormalizeTwice ==
  /\ pc = "n_once"
  /\ norm2' = normalize_text(norm1)
  /\ pc' = "n_twice"
  /\ UNCHANGED <<text, norm1, adapterVars, orchVars, ruleVars, mainVars>>

NextNormalize == NormalizeOnce \/ NormalizeTwice

SpecNormalize == InitNormalize /\ [][NextNormalize]_vars

\* C8: normalising an already normalised text changes nothing:
\* _normalize_text(_normalize_text(x)) = _normalize_text(x) for every text x.
C8_NormalizeIdempotent == pc = "n_twice" => norm2 = norm1

\* ---------------------------------------------- specification: adapters
\* The headers either adapter looks for when it decides whether it
\* recognises a table.
TimeHeaders == {"jiaoyishijian", "shijian", "chuangjianshijian", "zhifushijian"}
AmountHeaders == {"jine(yuan)fw", "jine(yuan)", "jine", "jiaoyijine", "jiaoyijine(yuan)"}

AmountAlphabet == {"5", ".", ",", "Y", "(", ")", "-", "=", "N", "x", " "}

\* "(Y1,234.50)" of the design's scenario 4
Scenario4Amount == <<"(", "Y", "1", ",", "2", "3", "4", ".", "5", "0", ")">>

\* read_csv reads an empty field and the field "nan" as missing (NaCell), so
\* neither is the text of a cell.
AmountCells ==
  (SeqsUpTo(AmountAlphabet, MaxAmountLen) \ {<<>>, <<"N">>}) \cup {NaCell, Scenario4Amount}

\* One table per set of time and amount headers, one well-formed row.
HeaderTables ==
  {[cols |-> c,
    rows |-> <<[h \in c |-> IF h \in TimeHeaders THEN <<"d1">> ELSE <<"5">>]>>] :
     c \in SUBSET (TimeHeaders \cup AmountHeaders)}

AmountRow(a) == [h \in {"jiaoyishijian", "jine"} |-> IF h = "jine" THEN a ELSE <<"d1">>]

\* One table per amount cell, under headers both adapters know.
AmountTables ==
  {[cols |-> {"jiaoyishijian", "jine"}, rows |-> <<AmountRow(a)>>] : a \in AmountCells}

\* Two-row tables: a row the adapter drops beside one it keeps.
TwoRowTables ==
  {[cols |-> {"jiaoyishijian", "jine"}, rows |-> <<AmountRow(a), AmountRow(b)>>] :
     a, b \in {<<"5">>, <<"(", "5", ")">>, <<"x">>, <<"Y", "N">>, NaCell}}

TableInputs == HeaderTables \cup AmountTables \cup TwoRowTables

InitAdapter ==
  /\ pc = "adapter"
  /\ table \in TableInputs
  /\ ran = {}
  /\ alipayOut = NotRecognized
  /\ wechatOut = NotRecognized
  /\ NormIdle
  /\ RuleIdle
  /\ MainIdle
  /\ OrchIdle

RunAlipay ==
  /\ pc = "adapter"
  /\ "alipay" \notin ran
  /\ alipayOut' = parse_alipay(table)
  /\ ran' = ran \cup {"alipay"}
  /\ UNCHANGED <<pc, table, wechatOut, normVars, orchVars, ruleVars, mainVars>>

RunWechat ==
  /\ pc = "adapter"
  /\ "wechat" \notin ran
  /\ wechatOut' = parse_wechat(table)
  /\ ran' = ran \cup {"wechat"}
  /\ UNCHANGED <<pc, table, alipayOut, normVars, orchVars, ruleVars, mainVars>>

NextAdapter == RunAlipay \/ RunWechat

SpecAdapter == InitAdapter /\ [][NextAdapter]_vars

AdapterRows == 
  {alipayOut.rows[i] : i \in 1..Len(alipayOut.rows)}
    \cup {wechatOut.rows[i] : i \in 1..Len(wechatOut.rows)}

\* C6: every transaction an adapter produces has amount >= 0, whatever
\* sign or parenthesis notation the source amount used.
C6_AmountNonNegative == \A r \in AdapterRows : GeZero(r.amount)

\* C9: no table is recognised by both parse_alipay and parse_wechat.
C9_AdapterExclusive ==
  ran = {"alipay", "wechat"} => ~(alipayOut.recognized /\ wechatOut.recognized)

\* -------------------------------------- specification: rules and classifier
\* Texts of the rule table and of the transactions, character by character:
\*   ken de ji = 肯德基   da che = 打车   chu xing = 出行   di di = 滴滴
KfcAliases == <<"k", "f", "c", "|", "ken", "de", "ji">>
RidePattern == <<"da", "che", "|", "chu", "xing">>

RuleRow(p, m, k, c, sc, re) ==
  [priority |-> p, merchant |-> m, keyword |-> k, category |-> c,
   subcategory |-> sc, regex |-> re]

\* (merchant, keyword) of the rule rows tried at every priority and category
RulePatterns ==
  { <<KfcAliases, NaCell>>,      \* merchant only, aliases
    <<NaCell, RidePattern>>,     \* keyword only, aliases
    <<NaCell, NaCell>> }         \* neither: catch-all

\* 10, 5 and a priority that does not parse
PriorityCells == {<<"1", "0">>, <<"5">>, <<"x">>}

RuleRowInputs ==
  {RuleRow(p, pt[1], pt[2], c, NaCell, <<"0">>) :
     p \in PriorityCells, pt \in RulePatterns, c \in {<<"A">>, <<"B">>}}
    \cup {\* merchant and keyword
          RuleRow(<<"5">>, <<"k", "f", "c">>, <<"da", "che">>, <<"A">>, <<"s">>, NaCell),
          \* well-formed regex
          RuleRow(<<"1", "0">>, <<"k", ".", "c">>, NaCell, <<"B">>, NaCell, <<"1">>),
          \* malformed regex
          RuleRow(<<"1", "0">>, <<"(", "k">>, NaCell, <<"A">>, NaCell, <<"1">>),
          \* blank category: dropped
          RuleRow(<<"1", "0">>, NaCell, NaCell, <<" ">>, <<"s">>, NaCell),
          \* priority 5.5, patterns in upper case and full width
          RuleRow(<<"5", ".", "5">>, <<"K", "F", "C">>, NaCell, <<"A">>, <<"s">>, <<"1", ".", "0">>),
          \* no priority
          RuleRow(NaCell, NaCell, <<"di", "di">>, <<"B">>, NaCell, <<"T", "r", "u", "e">>)}

RuleFileInputs ==
  {NoRuleFile, [exists |-> TRUE, readable |-> FALSE, rows |-> <<>>]}
    \cup {[exists |-> TRUE, readable |-> TRUE, rows |-> r] :
            r \in SeqsUpTo(RuleRowInputs, MaxRules)}

Txn(m, i, n) == [merchant |-> m, item |-> i, note |-> n]

TxnInputs ==
  { Txn(<<"K", "F", "C", " ", "men", "dian">>, NaCell, NaCell),
    Txn(<<"x">>, <<"di", "di", "da", "che">>, <<>>),
    Txn(<<"x">>, <<"FA">>, <<"k", "f", "c">>),
    Txn(<<"k", "f", "c">>, <<"chu", "xing">>, NaCell),
    Txn(NaCell, NaCell, NaCell) }

MergedInputs ==
  {<<t>> : t \in TxnInputs}
    \cup {<<Txn(<<"k", "f", "c">>, <<"chu", "xing">>, NaCell), Txn(<<"x">>, NaCell, NaCell)>>}

InitClassify ==
  /\ pc = "c_start"
  /\ ruleFile \in RuleFileInputs
  /\ merged \in MergedInputs
  /\ rules = <<>>
  /\ cats = <<>>
  /\ NormIdle
  /\ AdapterIdle
  /\ MainIdle
  /\ OrchIdle

\* main, line 342
LoadRules ==
  /\ pc = "c_start"
  /\ rules' = load_category_rules(ruleFile)
  /\ pc' = "c_loaded"
  /\ UNCHANGED <<ruleFile, merged, cats, normVars, orchVars, adapterVars, mainVars>>

\* main, lines 343-353
ClassifyRows ==
  /\ pc = "c_loaded"
  /\ cats' = Categorize(merged, rules)
  /\ pc' = "c_done"
  /\ UNCHANGED <<ruleFile, merged, rules, normVars, orchVars, adapterVars, mainVars>>

NextClassify == LoadRules \/ ClassifyRows

SpecClassify == InitClassify /\ [][NextClassify]_vars

\* The texts _classify matches against, for the row t of merged.
RowTexts(t) ==
  LET m == normalize_text(TextOf(t.merchant))
      i == normalize_text(TextOf(t.item))
      n == normalize_text(TextOf(t.note))
  IN  [mtext |-> m, itext_join |-> Strip(Join(<<i, n>>)), fulltext |-> Strip(Join(<<m, i, n>>))]

\* Every condition rule r declares succeeds on row t.
RuleMatches(r, t) ==
  MerchantOk(r, RowTexts(t).mtext, RowTexts(t).fulltext) /\ KeywordOk(r, RowTexts(t).itext_join)

MatchingRules(t) == {k \in 1..Len(rules) : RuleMatches(rules[k], t)}

\* C1: the row gets the category and subcategory of the earliest rule of the
\* sorted list whose conditions all succeed, and no matching rule of the
\* list has a higher priority than that rule (priority 10 beats priority 5).
C1_FirstMatchWins ==
  pc = "c_done" =>
    \A i \in 1..Len(merged) :
      MatchingRules(merged[i]) # {} =>
        LET k == CHOOSE k \in MatchingRules(merged[i]) :
                   \A j \in MatchingRules(merged[i]) : k <= j
        IN  /\ cats[i] = <<rules[k].category, rules[k].subcategory>>
            /\ \A j \in MatchingRules(merged[i]) : rules[j].priority <= rules[k].priority

\* A priority-10 rule of category A and a priority-5 rule of category B, in
\* this order in the file or the other, both match the row, which gets A.
C1_Witness ==
  /\ pc = "c_done"
  /\ \E a, b \in MatchingRules(merged[1]) :
       /\ rules[a].priority = 10 /\ rules[a].category = <<"A">>
       /\ rules[b].priority = 5 /\ rules[b].category = <<"B">>
       /\ rules[b].row < rules[a].row
  /\ cats[1][1] = <<"A">>

\* The priority cells that are no number.
UnparsablePriority(cell) == cell \in {NaCell, <<>>, <<"x">>}

\* C2: the loaded rules are in non-increasing order of priority, rules of
\* equal priority are in the order of their rows in the file, and a rule
\* whose priority does not parse has priority 0.
C2_RulesSortedStable ==
  pc \in {"c_loaded", "c_done"} =>
    /\ \A i, j \in 1..Len(rules) :
         i < j => \/ rules[i].priority > rules[j].priority
                  \/ rules[i].priority = rules[j].priority /\ rules[i].row < rules[j].row
    /\ \A i \in 1..Len(rules) :
         UnparsablePriority(ruleFile.rows[rules[i].row].priority) => rules[i].priority = 0

\* Two rules of equal priority and a rule of lower priority that stands
\* before them in the file; one priority did not parse.
C2_Witness ==
  /\ pc = "c_loaded"
  /\ Len(rules) = MaxRules
  /\ rules[1].priority > rules[Len(rules)].priority
  /\ rules[1].row > rules[Len(rules)].row
  /\ UnparsablePriority(ruleFile.rows[rules[Len(rules)].row].priority)

\* C7: a row is left unclassified ("", "") exactly when no loaded rule
\* matches it; with the rule table absent, unreadable or without a usable
\* rule every row is unclassified (the step assigns a pair to every row).
C7_UnclassifiedDefault ==
  pc = "c_done" =>
    /\ Len(cats) = Len(merged)
    /\ \A i \in 1..Len(merged) :
         cats[i] = Unclassified <=> MatchingRules(merged[i]) = {}
    /\ (~ruleFile.exists \/ ~ruleFile.readable \/ rules = <<>>) =>
         \A i \in 1..Len(merged) : cats[i] = Unclassified

\* A readable rule table whose rows are all dropped, and two rows left
\* unclassified.
C7_Witness ==
  /\ pc = "c_done"
  /\ ruleFile.readable /\ ruleFile.rows # <<>> /\ rules = <<>>
  /\ Len(merged) = 2 /\ cats = <<Unclassified, Unclassified>>

\* ----------------------------------------------------- specification: main
MergeCols  == {"jiaoyishijian", "jine", "jiaoyiduifang"}
WechatCols == {"jiaoyishijian", "jiaoyijine(yuan)", "jiaoyiduifang"}
OtherCols  == {"jiaoyiduifang", "beizhu"}

RawRow(cols, t, a, m) ==
  [h \in cols |-> IF h \in TimeHeaders THEN t ELSE IF h \in AmountHeaders THEN a ELSE m]

\* (time, amount, merchant) of the raw rows tried
RowA       == <<<<"d1">>, <<"5">>, <<"K", "F", "C">>>>
RowB       == <<<<"d1s">>, <<"(", "5", ")">>, <<"x">>>>     \* the instant of RowA
RowC       == <<<<"d2">>, <<"5">>, <<"k", "f", "c">>>>
RowBadDate == <<<<"x">>, <<"5">>, <<"x">>>>
RowNanAmt  == <<<<"d1">>, <<"Y", "N">>, <<"x">>>>
RowBadAmt  == <<<<"d2">>, <<"x">>, <<"x">>>>
RowAllNa   == <<NaCell, NaCell, NaCell>>

InputFile(cols, rs) ==
  [raises |-> FALSE,
   df |-> [cols |-> cols, rows |-> [i \in 1..Len(rs) |-> RawRow(cols, rs[i][1], rs[i][2], rs[i][3])]]]

FileInputs ==
  {[raises |-> TRUE, df |-> EmptyTable], InputFile(OtherCols, <<RowA>>)}
    \cup {InputFile(MergeCols, rs) :
            rs \in {<<>>, <<RowA>>, <<RowB>>, <<RowA, RowB>>, <<RowC, RowA>>,
                    <<RowBadDate, RowC>>, <<RowNanAmt>>, <<RowBadAmt>>, <<RowAllNa, RowC>>}}
    \cup {InputFile(WechatCols, rs) : rs \in {<<RowA>>, <<RowC, RowB>>}}

MainRuleFiles ==
  {NoRuleFile,
   [exists |-> TRUE, readable |-> TRUE,
    rows |-> <<RuleRow(<<"5">>, NaCell, NaCell, <<"B">>, NaCell, NaCell),
               RuleRow(<<"1", "0">>, KfcAliases, NaCell, <<"A">>, <<"s">>, NaCell)>>]}

Init ==
  /\ pc = "m_start"
  /\ files \in SeqsUpTo(FileInputs, MaxFiles)
  /\ ruleFile \in MainRuleFiles
  /\ idx = 1
  /\ dfs = <<>>
  /\ report = <<>>
  /\ ledger = <<>>
  /\ outcome = "running"
  /\ rules = <<>>
  /\ merged = <<>>
  /\ cats = <<>>
  /\ NormIdle
  /\ AdapterIdle
  /\ OrchIdle

\* Lines 309-316: no input file, no run.
Glob ==
  /\ pc = "m_start"
  /\ IF files = <<>>
     THEN pc' = "m_done" /\ outcome' = "no_files"
     ELSE pc' = "m_loop" /\ outcome' = outcome
  /\ UNCHANGED <<files, idx, dfs, report, ledger, ruleVars, normVars, orchVars, adapterVars>>

\* Lines 319-332, one turn of the loop. An error is caught and printed, an
\* unrecognised file is reported, and the loop goes on with the next file.
ProcessFileAbortOnError ==
  /\ pc = "m_loop"
  /\ idx <= Len(files)
  /\ LET r == ProcessOne(files[idx])
     IN  /\ report' = Append(report, r.report)
         /\ dfs' = IF r.report = "parsed"
                   THEN Append(dfs, [file |-> idx, rows |-> r.rows]) ELSE dfs
         /\ IF r.report = "error"
            THEN pc' = "m_done" /\ outcome' = "crashed"
            ELSE pc' = pc /\ outcome' = outcome
  /\ idx' = idx + 1
  /\ UNCHANGED <<files, ledger, ruleVars, normVars, orchVars, adapterVars>>

ProcessFile ==
  /\ pc = "m_loop"
  /\ idx <= Len(files)
  /\ LET r == ProcessOne(files[idx])
     IN  /\ report' = Append(report, r.report)
         /\ dfs' = IF r.report = "parsed"
                   THEN Append(dfs, [file |-> idx, rows |-> r.rows]) ELSE dfs
  /\ idx' = idx + 1
  /\ UNCHANGED <<pc, files, ledger, outcome, ruleFile, rules, merged, cats, normVars, orchVars, adapterVars>>

\* Lines 334-395: concatenate, validate, sort, classify, write.
MergeAndWrite ==
  /\ pc = "m_loop"
  /\ idx > Len(files)
  /\ \E s \in SortOutcomes(SelectRows(Concat(dfs))) :
       LET rl == IF dfs = <<>> \/ Concat(dfs) = <<>> THEN <<>> ELSE load_category_rules(ruleFile)
           f  == Finish(dfs, s, rl)
       IN  /\ rules' = rl
           /\ merged' = IF f.outcome = "written" THEN s ELSE <<>>
           /\ cats' = [i \in 1..Len(f.ledger) |-> <<f.ledger[i].category, f.ledger[i].subcategory>>]
           /\ ledger' = f.ledger
           /\ outcome' = f.outcome
  /\ pc' = "m_done"
  /\ UNCHANGED <<files, idx, dfs, report, ruleFile, normVars, orchVars, adapterVars>>

Next == Glob \/ ProcessFile \/ MergeAndWrite

Spec == Init /\ [][Next]_vars

Reverse(q) == [i \in 1..Len(q) |-> q[Len(q) + 1 - i]]

\* A ledger row as merged.csv holds it: without the bookkeeping of where
\* the row came from.
Content(r) ==
  [date |-> r.date, type |-> r.type, category |-> r.category,
   subcategory |-> r.subcategory, amount |-> r.amount, platform |-> r.platform,
   merchant |-> r.merchant, item |-> r.item, method |-> r.method,
   status |-> r.status, note |-> r.note]

ContentSeq(l) == [i \in 1..Len(l) |-> Content(l[i])]

\* How often each row occurs in the ledger l.
BagOfRows(l) ==
  [c \in {Content(l[i]) : i \in 1..Len(l)} |->
     Cardinality({i \in 1..Len(l) : Content(l[i]) = c})]

\* C3 as claimed: the run on the files in the opposite order ends the same
\* way and writes the same ledger, row for row.
C3_MergeCommutes ==
  pc = "m_done" =>
    \A o \in MainOutcomes(Reverse(files), ruleFile) :
      o.outcome = outcome /\ ContentSeq(o.ledger) = ContentSeq(ledger)

\* C3 as amended: the run on the files in the opposite order ends the same
\* way and writes the same rows, each as often, with the same date at every
\* place of the ledger; the ledgers differ at most in the order of rows that
\* carry equal dates, and are identical when no two rows share a date.
C3_MergeCommutesUpToTies ==
  pc = "m_done" =>
    \A o \in MainOutcomes(Reverse(files), ruleFile) :
      /\ o.outcome = outcome
      /\ Len(o.ledger) = Len(ledger)
      /\ \A i \in 1..Len(ledger) : o.ledger[i].date = ledger[i].date
      /\ BagOfRows(o.ledger) = BagOfRows(ledger)
      /\ (\A i, j \in 1..Len(ledger) : i # j => ledger[i].date # ledger[j].date)
           => ContentSeq(o.ledger) = ContentSeq(ledger)

\* Two different files, rows of both in the ledger, a row of the second file
\* dated before a row of the first, and two rows of equal date and different
\* content that come from different files.
C3_Witness ==
  /\ pc = "m_done" /\ outcome = "written"
  /\ Len(files) = 2 /\ files[1] # files[2]
  /\ \E i, j \in 1..Len(ledger) :
       ledger[i].file = 2 /\ ledger[j].file = 1 /\ ledger[i].date < ledger[j].date
  /\ \E i, j \in 1..Len(ledger) :
       /\ ledger[i].file # ledger[j].file
       /\ ledger[i].date = ledger[j].date
       /\ Content(ledger[i]) # Content(ledger[j])

\* C4: the dates of the ledger never decrease from one row to the next, and
\* rows of equal date stand in the order of the concatenation.
C4_LedgerOrder ==
  pc = "m_done" /\ outcome = "written" =>
    \A i, j \in 1..Len(ledger) :
      i < j => \/ ledger[i].date < ledger[j].date
               \/ ledger[i].date = ledger[j].date /\ ledger[i].pos < ledger[j].pos

\* The rows of the frame, its bookkeeping apart, that main keeps: a date
\* that parsed and an amount that is a number.
IsValidRow(row) == row.date \in {1, 2, 3} /\ row.amount.kind \in {"num", "inf"}

\* C5: the ledger holds exactly the adapter rows of the recognised files
\* that have a valid date and amount, each once and unchanged.
C5_RowConservation ==
  pc = "m_done" /\ outcome = "written" =>
    LET all == Concat(dfs)
        V   == {k \in 1..Len(all) : IsValidRow(all[k].row)}
    IN  /\ \A i \in 1..Len(files) :
             (~files[i].raises /\ (AlipayRecognizes(files[i].df.cols) \/ WechatRecognizes(files[i].df.cols)))
               => \E k \in 1..Len(dfs) : dfs[k].file = i
        /\ \A k \in 1..Len(dfs) :
             LET f == files[dfs[k].file].df
             IN  dfs[k].rows = IF AlipayRecognizes(f.cols)
                               THEN AlipayRows(f.cols, DropAllNa(f.rows))
                               ELSE WechatRows(f.cols, DropAllNa(f.rows))
        /\ Len(ledger) = Cardinality(V)
        /\ {ledger[i].pos : i \in 1..Len(ledger)} = V
        /\ \A i \in 1..Len(ledger) :
             /\ IsValidRow(ledger[i])
             /\ Content(ledger[i]) =
                  Content(LedgerRow(all[ledger[i].pos],
                                    <<ledger[i].category, ledger[i].subcategory>>))

\* Two files the same adapter recognises, with a date in common, rows of
\* both in the ledger, and a row that main dropped.
C5_Witness ==
  /\ pc = "m_done" /\ outcome = "written"
  /\ Len(files) = 2
  /\ \E i, j \in 1..Len(ledger) :
       /\ ledger[i].file = 1 /\ ledger[j].file = 2
       /\ ledger[i].date = ledger[j].date
       /\ ledger[i].platform = ledger[j].platform
  /\ \E i, j \in 1..Len(ledger) : ledger[i].date # ledger[j].date
  /\ Len(ledger) < Len(Concat(dfs))

\* What the loop is to print for file f.
ExpectedReport(f) ==
  IF f.raises THEN "error"
  ELSE IF AlipayRecognizes(f.df.cols) \/ WechatRecognizes(f.df.cols) THEN "parsed"
  ELSE "unrecognized"

\* C10: every file is handled whatever happened to the files before it; a
\* file that raises or that no adapter recognises is skipped, every other
\* file contributes its valid rows to the ledger, and the run ends without a
\* ledger only when no file yields a transaction.
C10_FailureIsolation ==
  pc = "m_done" =>
    /\ Len(report) = Len(files)
    /\ \A i \in 1..Len(files) : report[i] = ExpectedReport(files[i])
    /\ \A i \in 1..Len(files) :
         outcome = "written" =>
           Cardinality({k \in 1..Len(ledger) : ledger[k].file = i})
             = Cardinality({k \in 1..Len(ProcessOne(files[i]).rows) :
                              IsValidRow(ProcessOne(files[i]).rows[k])})
    /\ outcome # "written" => \A i \in 1..Len(files) : ProcessOne(files[i]).rows = <<>>

\* A file that raises, then a file whose rows reach the ledger.
C10_Witness ==
  /\ pc = "m_done" /\ outcome = "written"
  /\ Len(files) = 2
  /\ files[1].raises /\ report = <<"error", "parsed">>
  /\ \E k \in 1..Len(ledger) : ledger[k].file = 2

\* ------------------------------------------- specification: rule matching
\* Rule rows that tell the conditions of _classify apart; every row has a
\* category of its own (c1 .. c9), so the pair a transaction gets names the
\* rule row that was applied.
MatchRuleInputs ==
  { \* merchant and keyword
    RuleRow(<<"5">>, <<"k", "f", "c">>, <<"da", "che">>, <<"c1">>, NaCell, <<"0">>),
    \* merchant only, aliases
    RuleRow(<<"5">>, KfcAliases, NaCell, <<"c2">>, NaCell, <<"0">>),
    \* keyword only, aliases
    RuleRow(<<"5">>, NaCell, RidePattern, <<"c3">>, NaCell, <<"0">>),
    \* neither condition, at priority 5 and at priority 10
    RuleRow(<<"5">>, NaCell, NaCell, <<"c4">>, NaCell, <<"0">>),
    RuleRow(<<"1", "0">>, <<" ">>, NaCell, <<"c5">>, NaCell, <<"0">>),
    \* regex with a group that is never closed, as merchant and as keyword
    RuleRow(<<"1", "0">>, <<"(", "k">>, NaCell, <<"c6">>, NaCell, <<"1">>),
    RuleRow(<<"1", "0">>, NaCell, <<"(", "da">>, <<"c7">>, NaCell, <<"1">>),
    \* regex (?I)kfc: re knows no extension ?I
    RuleRow(<<"1", "0">>, <<"(", "?", "I", ")", "k", "f", "c">>, NaCell, <<"c8">>, NaCell, <<"1">>),
    \* well-formed regex
    RuleRow(<<"1", "0">>, <<"k", ".", "c">>, NaCell, <<"c9">>, NaCell, <<"1">>) }

MatchRuleFiles ==
  {[exists |-> TRUE, readable |-> TRUE, rows |-> r] : r \in SeqsUpTo(MatchRuleInputs, MaxRules)}

\* A brand in the note only; brand and keyword where the rule looks for
\* them; the keyword's text as merchant only; the brand without the keyword.
MatchTxns ==
  << Txn(<<"x">>, <<"da", "che">>, <<"k", "f", "c">>),
     Txn(<<"K", "F", "C">>, <<"da", "che">>, NaCell),
     Txn(<<"chu", "xing">>, <<"x">>, NaCell),
     Txn(<<"k", "f", "c">>, <<"chu", "xing">>, NaCell) >>

MatchMergedInputs == {MatchTxns, SubSeq(MatchTxns, 1, 2), SubSeq(MatchTxns, 3, 4)}

InitMatch ==
  /\ pc = "c_start"
  /\ ruleFile \in MatchRuleFiles
  /\ merged \in MatchMergedInputs
  /\ rules = <<>>
  /\ cats = <<>>
  /\ NormIdle
  /\ AdapterIdle
  /\ MainIdle
  /\ OrchIdle

SpecMatch == InitMatch /\ [][NextClassify]_vars

RulePair(r) == <<r.category, r.subcategory>>

\* The earliest rule of the loaded list that satisfies Sat(_), 0 if none.
FirstRule(Sat(_)) ==
  IF \E k \in 1..Len(rules) : Sat(rules[k])
  THEN CHOOSE k \in 1..Len(rules) : Sat(rules[k]) /\ \A j \in 1..(k - 1) : ~Sat(rules[j])
  ELSE 0

PairOfRule(k) == IF k = 0 THEN Unclassified ELSE RulePair(rules[k])

\* The merchant pattern of r found in merchant alone when r has a keyword
\* and in fullText when it has none; the keyword pattern found in itemJoin.
TargetsMatch(r, t) ==
  /\ r.merchant # <<>> =>
       PatternOk(normalize_text(r.merchant),
                 IF r.keyword # <<>> THEN RowTexts(t).mtext ELSE RowTexts(t).fulltext,
                 r.regex)
  /\ r.keyword # <<>> =>
       PatternOk(normalize_text(r.keyword), RowTexts(t).itext_join, r.regex)

\* C11: every row is classified by the earliest rule whose merchant pattern
\* is found in the normalized merchant (rule with a keyword) or in fullText
\* (rule without) and whose keyword pattern is found in itemJoin; a rule
\* whose keyword occurs in the merchant field only is not applied.
C11_MatchTargets ==
  pc = "c_done" =>
    \A i \in 1..Len(merged) :
      LET Sat(r) == TargetsMatch(r, merged[i])
      IN  /\ cats[i] = PairOfRule(FirstRule(Sat))
          /\ \A k \in 1..Len(rules) :
               (/\ rules[k].keyword # <<>> /\ ~rules[k].regex
                /\ ~Contains(RowTexts(merged[i]).itext_join, <<"da", "che">>)
                /\ ~Contains(RowTexts(merged[i]).itext_join, <<"chu", "xing">>))
                 => cats[i] # RulePair(rules[k])

\* The rule with merchant and keyword stands first and is not applied to the
\* row whose brand is in the note only, the merchant-only rule behind it is;
\* the keyword-only rule is not applied to the row whose merchant is its text.
C11_Witness ==
  /\ pc = "c_done"
  /\ merged = MatchTxns
  /\ Len(rules) = 2
  /\ rules[1].merchant # <<>> /\ rules[1].keyword # <<>>
  /\ rules[2].merchant # <<>> /\ rules[2].keyword = <<>>
  /\ cats[1] = RulePair(rules[2])
  /\ cats[2] = RulePair(rules[1])

\* The conditions rule r declares, each with the target _classify gives it.
MerchantDeclared(r) == r.merchant # <<>>
KeywordDeclared(r) == r.keyword # <<>>
MerchantSucceeds(r, t) == MerchantOk(r, RowTexts(t).mtext, RowTexts(t).fulltext)
KeywordSucceeds(r, t) == KeywordOk(r, RowTexts(t).itext_join)

EveryDeclaredSucceeds(r, t) ==
  /\ MerchantDeclared(r) => MerchantSucceeds(r, t)
  /\ KeywordDeclared(r) => KeywordSucceeds(r, t)

\* C12: a rule is applied to a row only if every condition it declares
\* succeeds, and the earliest such rule is applied; a rule that declares no
\* condition matches every row, so no rule behind it is ever applied.
C12_ConjunctionCatchAll ==
  pc = "c_done" =>
    \A i \in 1..Len(merged) :
      /\ \A k \in 1..Len(rules) :
           /\ cats[i] = RulePair(rules[k]) => EveryDeclaredSucceeds(rules[k], merged[i])
           /\ (/\ EveryDeclaredSucceeds(rules[k], merged[i])
               /\ \A j \in 1..(k - 1) : ~EveryDeclaredSucceeds(rules[j], merged[i]))
                => cats[i] = RulePair(rules[k])
           /\ (~MerchantDeclared(rules[k]) /\ ~KeywordDeclared(rules[k])) =>
                /\ cats[i] # Unclassified
                /\ cats[i] \in {RulePair(rules[j]) : j \in 1..k}
                /\ \A j \in (k + 1)..Len(rules) :
                     (\A h \in 1..k : RulePair(rules[h]) # RulePair(rules[j]))
                       => cats[i] # RulePair(rules[j])
      /\ (\A k \in 1..Len(rules) : ~EveryDeclaredSucceeds(rules[k], merged[i]))
           => cats[i] = Unclassified

\* The rule with merchant and keyword is applied to the row that has both
\* and not to the row that has the brand without the keyword; that row and
\* the others get the catch-all behind it.
C12_Witness ==
  /\ pc = "c_done"
  /\ merged = MatchTxns
  /\ Len(rules) = 2
  /\ MerchantDeclared(rules[1]) /\ KeywordDeclared(rules[1])
  /\ ~MerchantDeclared(rules[2]) /\ ~KeywordDeclared(rules[2])
  /\ cats[2] = RulePair(rules[1])
  /\ MerchantSucceeds(rules[1], merged[4]) /\ ~KeywordSucceeds(rules[1], merged[4])
  /\ cats[4] = RulePair(rules[2])

\* A second catch-all behind the first one is never applied.
C12_WitnessShadowed ==
  /\ pc = "c_done"
  /\ Len(rules) = 2
  /\ ~MerchantDeclared(rules[1]) /\ ~KeywordDeclared(rules[1])
  /\ RulePair(rules[2]) # RulePair(rules[1])
  /\ EveryDeclaredSucceeds(rules[2], merged[1])
  /\ cats[1] = RulePair(rules[1])

\* A regex-mode rule one of whose patterns, as the rule table holds it, is
\* not a valid regular expression.
IsMalformedRule(r) ==
  /\ r.regex
  /\ \/ r.merchant # <<>> /\ RegexMalformed(r.merchant)
     \/ r.keyword # <<>> /\ RegexMalformed(r.keyword)

IsWellFormedRule(r) == ~IsMalformedRule(r)

\* C13: a regex-mode rule with a malformed pattern is applied to no row, and
\* every row is classified as it is with the malformed rules taken out of
\* the list (no row is left without its pair).
C13_MalformedContained ==
  pc = "c_done" =>
    /\ Len(cats) = Len(merged)
    /\ \A i \in 1..Len(merged) :
         /\ \A k \in 1..Len(rules) :
              IsMalformedRule(rules[k]) => cats[i] # RulePair(rules[k])
         /\ cats[i] = Categorize(merged, SelectSeq(rules, IsWellFormedRule))[i]

\* ---------------------------------------- specification: direction of rows
\* Cells of the indicator column (shou/zhi) and of the transaction-type
\* column (jiaoyileixing):
\*   "/" = neither income nor expense   ling qian = 零钱   xiao fei = 消费
IoCells ==
  { <<"zhi", "chu">>, <<"shou", "ru">>, <<"zhuan", "chu">>, <<"zhuan", "ru">>,
    <<" ", "shou", "ru", " ">>, <<"/">>, NaCell }

TypeCells ==
  { <<"tui", "kuan">>, <<"x", "-", "tui", "kuan">>, <<"zhuan", "ru", "ling", "qian">>,
    <<"shou", "ru">>, <<"xiao", "fei">>, NaCell }

DirectionRow(cols, io, ty) ==
  [h \in cols |->
     CASE h = "jiaoyishijian" -> <<"d1">>
       [] h = "jine"          -> <<"5">>
       [] h = "shou/zhi"      -> io
       [] OTHER               -> ty]

\* One-row tables with and without the two columns; both adapters
\* recognise each of them.
DirectionTables ==
  {[cols |-> {"jiaoyishijian", "jine"} \cup c, rows |-> <<DirectionRow({"jiaoyishijian", "jine"} \cup c, io, ty)>>] :
     c \in SUBSET {"shou/zhi", "jiaoyileixing"}, io \in IoCells, ty \in TypeCells}

InitDirection ==
  /\ pc = "adapter"
  /\ table \in DirectionTables
  /\ ran = {}
  /\ alipayOut = NotRecognized
  /\ wechatOut = NotRecognized
  /\ NormIdle
  /\ RuleIdle
  /\ MainIdle
  /\ OrchIdle

SpecDirection == InitDirection /\ [][NextAdapter]_vars

\* str(r.get(col, "")).strip() for the first of the aliases the table has.
DirectionText(r, aliases) == Strip(StrOf(RowGet(r, FirstAlias(aliases, table.cols), <<>>)))

\* The refund and inflow keywords: tui kuan, zhuan ru, shou ru.
InflowKeywords == {<<"tui", "kuan">>, <<"zhuan", "ru">>, <<"shou", "ru">>}

\* The direction of a row: that of the indicator when it holds a marker,
\* else Income when the transaction-type text has an inflow keyword, else
\* Expense.
InferredType(expenseMarkers, incomeMarkers, io, typeText) ==
  IF io \in expenseMarkers THEN Expense
  ELSE IF io \in incomeMarkers THEN Income
  ELSE IF \E k \in InflowKeywords : Contains(typeText, k) THEN Income
  ELSE Expense

\* C14: the type of every adapter row is Expense or Income; it is that of
\* the indicator column when the column holds a marker of the adapter,
\* otherwise Income when the transaction-type text of the row contains a
\* refund or inflow keyword, and Expense in every remaining case.
C14_DirectionInference ==
  /\ \A r \in AdapterRows : r.type \in {Expense, Income}
  /\ (alipayOut.recognized /\ Len(alipayOut.rows) = Len(table.rows)) =>
       \A i \in 1..Len(table.rows) :
         alipayOut.rows[i].type =
           InferredType({<<"zhi", "chu">>, <<"zhuan", "chu">>}, {<<"shou", "ru">>, <<"zhuan", "ru">>},
                        DirectionText(table.rows[i], AlipayIo),
                        DirectionText(table.rows[i], WechatTypeCol))
  /\ (wechatOut.recognized /\ Len(wechatOut.rows) = Len(table.rows)) =>
       \A i \in 1..Len(table.rows) :
         wechatOut.rows[i].type =
           InferredType({<<"zhi", "chu">>}, {<<"shou", "ru">>},
                        DirectionText(table.rows[i], WechatIo),
                        DirectionText(table.rows[i], WechatTypeCol))

\* ------------------------------------- specification: oneclick_bills.main
\* ROOT/input exists and holds `files`; ROOT/output may be missing, and may
\* hold ledgers that earlier runs left ("stale"). merge_bills.OUTPUT_FILE
\* was computed when the module was imported, as ./output/merged.csv: the
\* setattr of line 78 changes OUTPUT_DIR and not OUTPUT_FILE, so the merge
\* step writes below the working directory, which is ROOT ("root"), another
\* directory with an output/ of its own ("elsewhere") or one without
\* ("elsewhere_no_output").
WorkingDirs == {"root", "elsewhere", "elsewhere_no_output"}

OutputDirs ==
  {[exists |-> FALSE, holds |-> [n \in OutputNames |-> "absent"]]}
    \cup {[exists |-> TRUE, holds |-> h] : h \in [OutputNames -> {"absent", "stale"}]}

OrchFileInputs ==
  { [raises |-> TRUE, df |-> EmptyTable],
    InputFile(OtherCols, <<RowA>>),
    InputFile(MergeCols, <<>>),
    InputFile(MergeCols, <<RowC, RowA>>) }

\* find_merged_csv (47-59): merged.csv, else merged_bills.csv, else the
\* newest merged*.csv, else "".
find_merged_csv(holds) ==
  IF holds["merged.csv"] # "absent" THEN "merged.csv"
  ELSE IF holds["merged_bills.csv"] # "absent" THEN "merged_bills.csv"
  ELSE IF holds["merged_old.csv"] # "absent" THEN "merged_old.csv"
  ELSE ""

\* The ways merge_mod.main() can end when called at line 79: what main does
\* with the files, the ledger going where OUTPUT_FILE points.
MergeResults(fs, rf, dir) ==
  {[outcome |-> IF o.outcome = "written" /\ dir = "elsewhere_no_output"
                THEN "crashed" ELSE o.outcome,
    ledger  |-> o.ledger] : o \in MainOutcomes(fs, rf)}

MergeReturned(o) == o \in {"no_files", "no_recognizable", "written"}

InitOneclick ==
  /\ pc = "o_start"
  /\ files \in SeqsUpTo(OrchFileInputs, MaxFiles)
  /\ ruleFile = NoRuleFile
  /\ idx = 1
  /\ dfs = <<>>
  /\ report = <<>>
  /\ ledger = <<>>
  /\ outcome = "running"
  /\ rules = <<>>
  /\ merged = <<>>
  /\ cats = <<>>
  /\ outputDir \in OutputDirs
  /\ cwd \in WorkingDirs
  /\ csv_path = ""
  /\ exit_code = 0
  /\ NormIdle
  /\ AdapterIdle

\* Lines 63-72: the folders are there, the merge script is found.
CheckDirs ==
  /\ pc = "o_start"
  /\ IF outputDir.exists
     THEN pc' = "o_merge" /\ exit_code' = exit_code
     ELSE pc' = "o_exit" /\ exit_code' = 1
  /\ UNCHANGED <<outputDir, cwd, csv_path, normVars, adapterVars, ruleVars, mainVars>>

\* Lines 74-86: the merge step; an exception ends the run with code 3.
RunMerge ==
  /\ pc = "o_merge"
  /\ \E r \in MergeResults(files, ruleFile, cwd) :
       /\ outcome' = r.outcome
       /\ ledger' = IF r.outcome = "written" THEN r.ledger ELSE ledger
       /\ outputDir' = IF r.outcome = "written" /\ cwd = "root"
                       THEN [outputDir EXCEPT !.holds["merged.csv"] = "fresh"]
                       ELSE outputDir
       /\ IF MergeReturned(r.outcome)
          THEN pc' = "o_find" /\ exit_code' = exit_code
          ELSE pc' = "o_exit" /\ exit_code' = 3
  /\ UNCHANGED <<files, idx, dfs, report, cwd, csv_path, normVars, adapterVars, ruleVars>>

\* Lines 88-95: the ledger is looked up; found, the merge is reported as
\* successful and the report step begins.
FindCsv ==
  /\ pc = "o_find"
  /\ csv_path' = find_merged_csv(outputDir.holds)
  /\ IF csv_path' = ""
     THEN pc' = "o_exit" /\ exit_code' = 4
     ELSE pc' = "o_report" /\ exit_code' = exit_code
  /\ UNCHANGED <<outputDir, cwd, normVars, adapterVars, ruleVars, mainVars>>

\* Lines 96-142: the report step, which ends well or raises (code 6).
RunReport ==
  /\ pc = "o_report"
  /\ \E raised \in BOOLEAN :
       IF raised THEN pc' = "o_exit" /\ exit_code' = 6
       ELSE pc' = "o_done" /\ exit_code' = exit_code
  /\ UNCHANGED <<outputDir, cwd, csv_path, normVars, adapterVars, ruleVars, mainVars>>

NextOneclick == CheckDirs \/ RunMerge \/ FindCsv \/ RunReport

SpecOneclick == InitOneclick /\ [][NextOneclick]_vars

\* C15: the report step starts only after the merge step has returned
\* without raising, and the ledger handed to it was written by the merge
\* step of this run.
C15_ReportUsesThisRunsLedger ==
  pc = "o_report" =>
    /\ MergeReturned(outcome)
    /\ outputDir.holds[csv_path] = "fresh"

====
